---------------------------- MODULE Spec2Model ----------------------------
(***************************************************************************)
(* A model of src/src/utils/reviz_graph_model.py: the citation matcher     *)
(* (find_doi, find_author, find_matching_authors, citation_matching with   *)
(* its nested ask_user and the module-level user_answers list) and the     *)
(* graph builder build_graph_model.                                        *)
(*                                                                         *)
(* A Python str is a sequence of one-character strings, so that the        *)
(* regular expressions, str.replace, str.upper and the fuzzy ratios act on *)
(* characters.  Python's None is the value None below.                     *)
(***************************************************************************)
EXTENDS Integers, Sequences, FiniteSets, TLC

\* ------------------------------------------------------------------ bounds
\* Articles in the bibliography (bib["final selection articles"]).
MaxArticles == 3
\* biblStruct elements read from TEI files in one process.
MaxRefs == 2
\* Invocations of build_graph_model in one process.
MaxRuns == 2
\* characters of a text given to find_doi
MaxText == 7
\* entries of an author list given to find_matching_authors
MaxAuthors == 2
\* threads that call ask_user at the same time
MaxThreads == 2

\* ----------------------------------------------------------------- strings
None == <<"None">>

LowerCase == <<"a","b","c","d","e","f","g","h","i","j","k","l","m",
               "n","o","p","q","r","s","t","u","v","w","x","y","z">>
UpperCase == <<"A","B","C","D","E","F","G","H","I","J","K","L","M",
               "N","O","P","Q","R","S","T","U","V","W","X","Y","Z">>
Digits == {"0","1","2","3","4","5","6","7","8","9"}
Whitespace == {" "}


\* str.upper(), one character
UpperChar(c) ==
    IF \E i \in 1..26 : c = LowerCase[i]
    THEN UpperCase[CHOOSE i \in 1..26 : c = LowerCase[i]]
    ELSE c

\* str.upper()
upper(s) == [i \in 1..Len(s) |-> UpperChar(s[i])]

\* s.replace(c, "") for a one-character c
RECURSIVE remove(_, _)
remove(s, c) ==
    IF s = <<>> THEN <<>>
    ELSE IF Head(s) = c THEN remove(Tail(s), c)
    ELSE <<Head(s)>> \o remove(Tail(s), c)

\* title.replace("{", "").replace("}", "").upper()
clean_title(t) == upper(remove(remove(t, "{"), "}"))

\* the last index of the run of characters of s in `chars` that starts
\* at i (i - 1 when s[i] is not in the set): a greedy X* from position i
RECURSIVE RunEnd(_, _, _)
RunEnd(s, i, chars) ==
    IF i <= Len(s) /\ s[i] \in chars THEN RunEnd(s, i + 1, chars) ELSE i - 1

\* s[i..] starts with the literal w
StartsWithAt(s, i, w) ==
    /\ i + Len(w) - 1 <= Len(s)
    /\ \A k \in 1..Len(w) : s[i + k - 1] = w[k]

\* ---------------------------------------------------------------- find_doi
NonSpace(s) == {s[i] : i \in 1..Len(s)} \ Whitespace

\* one digit before the dot is enough
DoiMatchEndOneDigit(s, i) ==
    IF /\ i + 1 <= Len(s)
       /\ s[i] \in Digits
       /\ s[i + 1] = "."
    THEN LET d == RunEnd(s, i + 2, Digits)
         IN  IF d >= i + 2 /\ d + 1 <= Len(s) /\ s[d + 1] = "/"
             THEN LET e == RunEnd(s, d + 2, NonSpace(s))
                  IN  IF e >= d + 2 THEN e ELSE 0
             ELSE 0
    ELSE 0

\* the end of the match of \d\d\.\d+\/\S+ that starts at i, 0 when none
DoiMatchEnd(s, i) ==
    IF /\ i + 2 <= Len(s)
       /\ s[i] \in Digits
       /\ s[i + 1] \in Digits
       /\ s[i + 2] = "."
    THEN LET d == RunEnd(s, i + 3, Digits)
         IN  IF d >= i + 3 /\ d + 1 <= Len(s) /\ s[d + 1] = "/"
             THEN LET e == RunEnd(s, d + 2, NonSpace(s))
                  IN  IF e >= d + 2 THEN e ELSE 0
             ELSE 0
    ELSE 0

find_doi(input) ==
    IF input = None THEN None
    ELSE LET starts == {i \in 1..Len(input) : DoiMatchEnd(input, i) # 0}
         IN  IF starts = {} THEN None
             ELSE LET i == CHOOSE j \in starts : \A k \in starts : j <= k
                  IN  SubSeq(input, i, DoiMatchEnd(input, i))

\* ------------------------------------------------------------- find_author
NameChars == {LowerCase[i] : i \in 1..26} \cup {UpperCase[i] : i \in 1..26}
                 \cup {"-"}
NameCharsSp == NameChars \cup {" "}

\* the end of " +and +" or " +AND +" starting at i, 0 when none
AndSepEnd(s, i) ==
    LET sp == RunEnd(s, i, {" "})
    IN  IF sp >= i /\ (StartsWithAt(s, sp + 1, <<"a","n","d">>)
                        \/ StartsWithAt(s, sp + 1, <<"A","N","D">>))
        THEN LET sp2 == RunEnd(s, sp + 4, {" "})
             IN  IF sp2 >= sp + 4 THEN sp2 ELSE 0
        ELSE 0

\* re.findall of (?P<name>[A-Za-z\-]+)(?: +and +| +AND +|$) from position i
RECURSIVE FindNoComma(_, _)
FindNoComma(s, i) ==
    IF i > Len(s) THEN <<>>
    ELSE LET e == RunEnd(s, i, NameChars)
         IN  IF e < i THEN FindNoComma(s, i + 1)
             ELSE IF AndSepEnd(s, e + 1) # 0
             THEN <<SubSeq(s, i, e)>> \o FindNoComma(s, AndSepEnd(s, e + 1) + 1)
             ELSE IF e = Len(s) THEN <<SubSeq(s, i, e)>>
             ELSE FindNoComma(s, i + 1)

\* the match of (?:^|and +|AND +)(?P<name>[A-Za-z\- ]+) at position i:
\* <<first, last>> of the name, <<0, 0>> when there is no match at i
CommaMatch(s, i) ==
    IF i = 1 /\ RunEnd(s, 1, NameCharsSp) >= 1
    THEN <<1, RunEnd(s, 1, NameCharsSp)>>
    ELSE IF StartsWithAt(s, i, <<"a","n","d">>) \/ StartsWithAt(s, i, <<"A","N","D">>)
    THEN LET sp == RunEnd(s, i + 3, {" "})
             e  == RunEnd(s, i + 3, NameCharsSp)
         IN  IF sp < i + 3 THEN <<0, 0>>
             ELSE IF e > sp THEN <<sp + 1, e>>
             \* only spaces follow: " +" gives its last space back to the name
             ELSE IF sp >= i + 4 THEN <<sp, sp>>
             ELSE <<0, 0>>
    ELSE <<0, 0>>

RECURSIVE FindComma(_, _)
FindComma(s, i) ==
    IF i > Len(s) THEN <<>>
    ELSE LET m == CommaMatch(s, i)
         IN  IF m[1] = 0 THEN FindComma(s, i + 1)
             ELSE <<SubSeq(s, m[1], m[2])>> \o FindComma(s, m[2] + 1)

find_author(author_json) ==
    IF \A i \in 1..Len(author_json) : author_json[i] # ","
    THEN FindNoComma(author_json, 1)
    ELSE FindComma(author_json, 1)

\* -------------------------------------------------------- thefuzz (library)
Max(a, b) == IF a >= b THEN a ELSE b

\* length of the longest common subsequence
RECURSIVE LCS(_, _)
LCS(a, b) ==
    IF a = <<>> \/ b = <<>> THEN 0
    ELSE IF Head(a) = Head(b) THEN 1 + LCS(Tail(a), Tail(b))
    ELSE Max(LCS(Tail(a), b), LCS(a, Tail(b)))

\* int(round(100 * n / d)), Python's round (half to even)
RoundPercent(n, d) ==
    LET q == (100 * n) \div d
        r == (100 * n) % d
    IN  IF 2 * r > d THEN q + 1
        ELSE IF 2 * r < d THEN q
        ELSE IF q % 2 = 0 THEN q ELSE q + 1

\* fuzz.ratio: the normalized indel similarity 2 * LCS / (len(a) + len(b))
fuzz_ratio(a, b) ==
    IF Len(a) + Len(b) = 0 THEN 100
    ELSE RoundPercent(2 * LCS(a, b), Len(a) + Len(b))

\* fuzz.partial_ratio: the best ratio of the shorter string against the
\* substrings of its length of the longer string
fuzz_partial_ratio(a, b) ==
    LET s == IF Len(a) <= Len(b) THEN a ELSE b
        l == IF Len(a) <= Len(b) THEN b ELSE a
        scores == {fuzz_ratio(s, SubSeq(l, i, i + Len(s) - 1)) :
                       i \in 1..(Len(l) - Len(s) + 1)}
    IN  CHOOSE x \in scores : \A y \in scores : x >= y

\* --------------------------------------------------- find_matching_authors
\* next((a for a in otherauthors if fuzz.ratio(author.upper(), a.upper()) >= 95), None) is not None
FuzzyIn(author, otherauthors) ==
    \E k \in 1..Len(otherauthors) :
        fuzz_ratio(upper(author), upper(otherauthors[k])) >= 95

\* what one author adds to counter (0 when no branch fires)
AuthorScore(author, artauthors, otherauthors) ==
    IF author = artauthors[1]
    THEN IF author = otherauthors[1] THEN 5
         ELSE IF FuzzyIn(author, otherauthors) THEN 3
         ELSE 0
    ELSE IF author = otherauthors[1] THEN 3
    ELSE IF FuzzyIn(author, otherauthors) THEN 1
    ELSE 0

RECURSIVE SumScores(_, _, _, _)
SumScores(artauthors, otherauthors, i, fired) ==
    IF i > Len(artauthors) THEN 0
    ELSE LET s == AuthorScore(artauthors[i], artauthors, otherauthors)
         IN  (IF fired THEN (IF s > 0 THEN 1 ELSE 0) ELSE s)
                 + SumScores(artauthors, otherauthors, i + 1, fired)

\* <<counter, number>>
find_matching_authors(artauthors, otherauthors) ==
    IF Len(artauthors) = 0 \/ Len(otherauthors) = 0
    THEN <<0, Len(artauthors) + Len(otherauthors)>>
    ELSE <<SumScores(artauthors, otherauthors, 1, FALSE),
           Len(artauthors) + Len(otherauthors)
               - SumScores(artauthors, otherauthors, 1, TRUE)>>

\* ------------------------------------------------------- citation_matching
\* type(title) == str
IsStr(t) == t # None

\* the DOI step compares the fields as given, without extracting the DOI
DoiMatchRaw(doi_art, doi_ref) == doi_art = doi_ref /\ doi_art # None

\* the DOI step accepts two failed extractions (None == None)
DoiMatchNoneCheckDropped(doi_art, doi_ref) == find_doi(doi_art) = find_doi(doi_ref)

\* doi_art == doi_ref and doi_art is not None and doi_ref is not None
DoiMatch(doi_art, doi_ref) ==
    /\ find_doi(doi_art) = find_doi(doi_ref)
    /\ find_doi(doi_art) # None
    /\ find_doi(doi_ref) # None

\* lev > 90 or (lev_partial > 95 and lev > 70)
TitlesMatch(lev, lev_partial) == lev > 90 \/ (lev_partial > 95 /\ lev > 70)

\* the ambiguous band with the bound on lev of the band above it
TitlesUnsureStrict(lev, lev_partial) == lev_partial > 90 /\ lev > 70

\* any score counts as matching authors
AuthorsMatchAny(counter) == counter >= 0

\* counter >= 2
AuthorsMatch(counter) == counter >= 2

\* lev_partial > 90 and lev > 60
TitlesUnsure(lev, lev_partial) == lev_partial > 90 /\ lev > 60

\* question = (title_art, title_ref, author_art, authors_ref), as ask_user
\* receives it from citation_matching
Question(title_art, title_ref, author_art, authors_ref) ==
    <<clean_title(title_art), clean_title(title_ref), author_art, authors_ref>>

\* citation_matching up to its return or its call of ask_user:
\* "True", "False", or "ask" (the value is then ask_user's)
citation_matching(doi_art, doi_ref, title_art, title_ref, author_art, authors_ref) ==
    IF DoiMatch(doi_art, doi_ref) THEN "True"
    ELSE IF IsStr(title_art) /\ IsStr(title_ref)
    THEN LET lev == fuzz_ratio(clean_title(title_art), clean_title(title_ref))
             lev_partial == fuzz_partial_ratio(clean_title(title_art),
                                               clean_title(title_ref))
         IN  IF TitlesMatch(lev, lev_partial)
             THEN IF AuthorsMatch(find_matching_authors(author_art, authors_ref)[1])
                  THEN "True"
                  ELSE "ask"
             ELSE IF TitlesUnsure(lev, lev_partial) THEN "ask"
             ELSE "False"
    ELSE "False"

\* ---------------------------------------------------------------- ask_user
\* only the questions answered with yes count as answered
AnsweredOnlyYes(answers, question) ==
    \E k \in 1..Len(answers) :
        answers[k].question = question /\ answers[k].answer

\* for user_answer in user_answers: if user_answer["question"] == question
Answered(answers, question) ==
    \E k \in 1..Len(answers) : answers[k].question = question

CachedAnswer(answers, question) ==
    answers[CHOOSE k \in 1..Len(answers) :
                /\ answers[k].question = question
                /\ \A j \in 1..(k - 1) : answers[j].question # question].answer

\* the automated mode consults the cache like the interactive mode
ask_user_cache_first(wiq, answers, question) ==
    IF Answered(answers, question)
    THEN IF CachedAnswer(answers, question) THEN "True" ELSE "False"
    ELSE IF wiq THEN "False" ELSE "prompt"

\* ask_user up to its return or its call of input():
\* "True", "False", or "prompt"
ask_user(wiq, answers, question) ==
    IF wiq THEN "False"
    ELSE IF Answered(answers, question)
    THEN IF CachedAnswer(answers, question) THEN "True" ELSE "False"
    ELSE "prompt"

\* the entry is appended only when the question has no entry yet
AppendAnswerIfAbsent(answers, question, answer) ==
    IF Answered(answers, question) THEN answers
    ELSE Append(answers, [question |-> question, answer |-> answer])

\* user_answers.append({"question": question, "answer": ...})
AppendAnswer(answers, question, answer) ==
    Append(answers, [question |-> question, answer |-> answer])

\* an upper-case Y counts as yes as well
IsYesAnyCase(line) == line \in {"y", "Y"}

\* input() == "y"
IsYes(line) == line = "y"

\* ------------------------------------------------------------------ inputs
\* The entries a bibliography is drawn from: the fields build_graph_model
\* reads of an entry of bib["final selection articles"].  author and title
\* are as in the JSON file; doi, year and file may be null.
PdfPath == <<"p",".","p","d","f">>

ArticlePool == <<
    [title  |-> <<"a","b">>,
     author |-> <<"L","i"," ","a","n","d"," ","W","u">>,
     doi    |-> <<"1","0",".","1","/","a">>,
     year   |-> <<"2","0","1","0">>,
     file   |-> PdfPath],
    [title  |-> <<"{","A","}","b","c">>,
     author |-> <<"W","u",","," ","X"," ","a","n","d"," ","L","i",","," ","Y">>,
     doi    |-> <<"x"," ","1","0",".","1","/","a">>,
     year   |-> <<"2","0","1","2">>,
     file   |-> PdfPath],
    [title  |-> None,
     author |-> <<"X","u">>,
     doi    |-> <<"1",".","1","/","a">>,
     year   |-> <<"2","0","1","0">>,
     file   |-> PdfPath],
    [title  |-> <<"a","b","c","d">>,
     author |-> <<>>,
     doi    |-> <<"1","0",".","1","/","b">>,
     year   |-> <<"2","0","1","3">>,
     file   |-> None],
    [title  |-> <<"c","d">>,
     author |-> <<"L","i">>,
     doi    |-> None,
     year   |-> None,
     file   |-> PdfPath] >>

\* The references a TEI file is drawn from: per biblStruct, the text of its
\* first title element, the text of its idno of type doi (None without one)
\* and the texts of its surname elements.
ReferencePool == <<
    [title   |-> <<"A","B","C">>,
     doi     |-> None,
     authors |-> << <<"L","i">>, <<"W","u">> >>],
    [title   |-> <<"a","{","b","}">>,
     doi     |-> None,
     authors |-> << >>],
    [title   |-> <<"x","y">>,
     doi     |-> <<"1","0",".","1","/","a">>,
     authors |-> << <<"X","u">> >>],
    [title   |-> None,
     doi     |-> None,
     authors |-> << >>] >>

PoolIds == 1..Len(ArticlePool)
RefIds == 1..Len(ReferencePool)

\* what the operator may type at the prompt
Lines == {"y", "n", "Y", ""}

\* a TEI file as build_graph_model finds it
Sentinels == {"no_blocks", "bad_input"}

\* int(article["year"]) of a string of digits
RECURSIVE ParseInt(_)
ParseInt(s) ==
    IF s = <<>> THEN 0
    ELSE 10 * ParseInt(SubSeq(s, 1, Len(s) - 1))
             + (CHOOSE d \in 0..9 : ToString(d) = s[Len(s)])

\* per pool entry and pool reference: what citation_matching decides and the
\* question it would put, computed once
MatchTable ==
    [a \in PoolIds, r \in RefIds |->
        LET A == ArticlePool[a]
            R == ReferencePool[r]
        IN  [verdict  |-> citation_matching(A.doi, R.doi, A.title, R.title,
                                            find_author(A.author), R.authors),
             question |-> IF IsStr(A.title) /\ IsStr(R.title)
                          THEN Question(A.title, R.title,
                                        find_author(A.author), R.authors)
                          ELSE <<>>]]

YearTable == [a \in PoolIds |->
                 IF ArticlePool[a].year = None THEN -1
                 ELSE ParseInt(ArticlePool[a].year)]

\* ------------------------------------------------------------------- state
VARIABLES
    bib,          \* articles: the pool entry at each position of the bibliography
    pc,           \* where build_graph_model stands
    runs,         \* invocations of build_graph_model started so far
    wiq,          \* without_interactive_queries of the current invocation
    user_answers, \* the module-level list of {"question", "answer"}
    years,        \* graph["years"]
    year_arts,    \* graph["year_arts"]
    edges,        \* graph["edges"]
    article,      \* position of `article` in the outer loop
    tei,          \* what the outer loop found for the article it handled last
    nrefs,        \* biblStruct elements read so far in the process
    ref,          \* the pool reference `ref` stands for (0: none)
    art,          \* position of `art` in the candidate loop
    question,     \* the question ask_user waits for an answer to
    output,       \* the file graph_dir/graph_filename of the current invocation
    asked,        \* history: the questions put to the operator
    warned,       \* history: msg.fail calls for the article handled last
    evald,        \* history: citation_matching results for the current ref,
                  \* with the line read for those the operator answered
    emitted,      \* history: edges appended for the current ref
    call,         \* a call of one of the module's functions on its own
    threads       \* the calls of ask_user that run at the same time

vars == <<bib, pc, runs, wiq, user_answers, years, year_arts, edges, article,
          tei, nrefs, ref, art, question, output, asked, warned, evald,
          emitted, call, threads>>

Article(i) == ArticlePool[bib[i]]
NoGraph == [written |-> FALSE]
NoQuestion == <<>>
NoCall == [fn |-> "none"]
\* recorded for a comparison that read nothing from the operator
NoLine == "(nothing read)"

\* bib["final selection articles"]: up to MaxArticles entries of the pool,
\* no entry twice
Bibliographies ==
    UNION {{b \in [1..n -> PoolIds] : \A i, j \in 1..n : b[i] = b[j] => i = j} :
               n \in 0..MaxArticles}

Init ==
    /\ bib \in Bibliographies
    /\ pc = "idle"
    /\ runs = 0
    /\ wiq = FALSE
    /\ user_answers = <<>>
    /\ years = <<>>
    /\ year_arts = <<>>
    /\ edges = <<>>
    /\ article = 0
    /\ tei = "none"
    /\ nrefs = 0
    /\ ref = 0
    /\ art = 0
    /\ question = NoQuestion
    /\ output = NoGraph
    /\ asked = <<>>
    /\ warned = 0
    /\ evald = <<>>
    /\ emitted = 0
    /\ call = NoCall
    /\ threads = <<>>

\* ------------------------------------------------------- build_graph_model
\* the call: graph = {}; user_answers is the module's and is left as it is
Call(mode) ==
    /\ UNCHANGED <<call, threads>>
    /\ pc \in {"idle", "done"}
    /\ runs < MaxRuns
    /\ runs' = runs + 1
    /\ wiq' = mode
    /\ pc' = "years"
    /\ years' = <<>>
    /\ year_arts' = <<>>
    /\ edges' = <<>>
    /\ article' = 0
    /\ tei' = "none"
    /\ ref' = 0
    /\ art' = 0
    /\ evald' = <<>>
    /\ emitted' = 0
    /\ warned' = 0
    /\ output' = NoGraph
    /\ UNCHANGED <<bib, user_answers, nrefs, question, asked>>

\* years.append(int(article["year"])) for the articles with a year
YearsOf(b) ==
    LET RECURSIVE Collect(_)
        Collect(i) ==
            IF i > Len(b) THEN <<>>
            ELSE (IF ArticlePool[b[i]].year # None
                  THEN <<YearTable[b[i]]>> ELSE <<>>) \o Collect(i + 1)
    IN  Collect(1)

SeqMin(s) == CHOOSE x \in {s[i] : i \in 1..Len(s)} : \A i \in 1..Len(s) : x <= s[i]
SeqMax(s) == CHOOSE x \in {s[i] : i \in 1..Len(s)} : \A i \in 1..Len(s) : x >= s[i]

\* this_year_arts: the keys of the articles of `year`, in bibliography
\* order; an article's bibtex_key is its position
ThisYearArts(b, year) ==
    LET RECURSIVE Collect(_)
        Collect(i) ==
            IF i > Len(b) THEN <<>>
            ELSE (IF YearTable[b[i]] = year THEN <<i>> ELSE <<>>)
                     \o Collect(i + 1)
    IN  Collect(1)

\* the years without an article are left out of the index
YearArtsSparse(b, ys) ==
    [year \in {ys[i] : i \in 1..Len(ys)} |-> ThisYearArts(b, year)]

\* for year in range(min(years), max(years) + 1)
YearArts(b, ys) ==
    [year \in SeqMin(ys)..SeqMax(ys) |-> ThisYearArts(b, year)]

\* lines 319-346: years, year_arts and articles.  min() of no years raises
\* ValueError, int(None) raises TypeError.
BuildYears ==
    /\ UNCHANGED <<call, threads>>
    /\ pc = "years"
    /\ years' = YearsOf(bib)
    /\ IF YearsOf(bib) = <<>> \/ \E i \in 1..Len(bib) : Article(i).year = None
       THEN /\ pc' = "raised"
            /\ UNCHANGED <<year_arts, article>>
       ELSE /\ year_arts' = YearArts(bib, YearsOf(bib))
            /\ pc' = "article"
            /\ article' = 1
    /\ UNCHANGED <<bib, runs, wiq, user_answers, edges, tei, nrefs, ref, art,
                   question, output, asked, warned, evald, emitted>>

\* the outer loop moves to the next article, or ends
NextArticle ==
    /\ article' = article + 1
    /\ pc' = IF article < Len(bib) THEN "article" ELSE "write"
    /\ ref' = 0
    /\ art' = 0
    /\ evald' = <<>>
    /\ emitted' = 0

\* lines 355-356: article["file"] is None; there is no msg call before the
\* continue
SkipNoFile ==
    /\ UNCHANGED <<call, threads>>
    /\ pc = "article"
    /\ Article(article).file = None
    /\ NextArticle
    /\ tei' = "no_file"
    /\ warned' = 0
    /\ UNCHANGED <<bib, runs, wiq, user_answers, years, year_arts, edges,
                   nrefs, question, output, asked>>

\* line 363: the TEI file does not exist.  The message is built with
\* "..." + article["title"], which raises TypeError for a title that is None.
SkipMissing ==
    /\ UNCHANGED <<call, threads>>
    /\ pc = "article"
    /\ Article(article).file # None
    /\ tei' = "missing"
    /\ IF IsStr(Article(article).title)
       THEN /\ warned' = 1
            /\ NextArticle
       ELSE /\ pc' = "raised"
            /\ warned' = 0
            /\ UNCHANGED <<article, ref, art, evald, emitted>>
    /\ UNCHANGED <<bib, runs, wiq, user_answers, years, year_arts, edges,
                   nrefs, question, output, asked>>

\* line 371: the TEI content is one of the two failure sentinels
SkipSentinel ==
    /\ UNCHANGED <<call, threads>>
    /\ pc = "article"
    /\ Article(article).file # None
    /\ \E t \in Sentinels : tei' = t
    /\ warned' = 1
    /\ NextArticle
    /\ UNCHANGED <<bib, runs, wiq, user_answers, years, year_arts, edges,
                   nrefs, question, output, asked>>

\* line 382: xml = et.parse(tei_file)
OpenTei ==
    /\ UNCHANGED <<call, threads>>
    /\ pc = "article"
    /\ Article(article).file # None
    /\ tei' = "xml"
    /\ warned' = 0
    /\ pc' = "refs"
    /\ ref' = 0
    /\ art' = 0
    /\ evald' = <<>>
    /\ emitted' = 0
    /\ UNCHANGED <<bib, runs, wiq, user_answers, years, year_arts, edges,
                   article, nrefs, question, output, asked>>

\* line 383: the next biblStruct of the file; the candidate loop starts
ReadRef ==
    /\ UNCHANGED <<call, threads>>
    /\ pc = "refs"
    /\ nrefs < MaxRefs
    /\ \E r \in RefIds : ref' = r
    /\ nrefs' = nrefs + 1
    /\ art' = 1
    /\ evald' = <<>>
    /\ emitted' = 0
    /\ pc' = "cand"
    /\ UNCHANGED <<bib, runs, wiq, user_answers, years, year_arts, edges,
                   article, tei, question, output, asked, warned>>

\* the file has no further biblStruct
EndRefs ==
    /\ UNCHANGED <<call, threads>>
    /\ pc = "refs"
    /\ NextArticle
    /\ UNCHANGED <<bib, runs, wiq, user_answers, years, year_arts, edges, tei,
                   nrefs, question, output, asked, warned>>

\* the candidate loop has no test for the article itself
SameTitleObjectDropped(b, i, j) == FALSE

\* line 412, art["title"] is article["title"]: the same object.  The titles
\* of two entries are one object when the entries are the same entry or
\* both titles are None; json.load builds a str of its own for every other
\* title.
SameTitleObject(b, i, j) ==
    \/ i = j
    \/ ArticlePool[b[i]].title = None /\ ArticlePool[b[j]].title = None

\* the candidate loop goes on after an edge
AfterEdgeNoBreak(b, a) ==
    IF a < Len(b) THEN [pc |-> "cand", art |-> a + 1]
    ELSE [pc |-> "refs", art |-> a]

\* line 433, break: the candidate loop ends with the edge
AfterEdge(b, a) == [pc |-> "refs", art |-> a]

\* the candidate loop moves to the next candidate, or ends
NextCandidate ==
    /\ art' = IF art < Len(bib) THEN art + 1 ELSE art
    /\ pc' = IF art < Len(bib) THEN "cand" ELSE "refs"

\* lines 416-433 once citation_matching has returned `matched`
Settle(matched, how, line) ==
    /\ evald' = Append(evald, [art |-> art, matched |-> matched, how |-> how,
                                input |-> line])
    /\ IF matched
       THEN /\ edges' = Append(edges, [from |-> article, to |-> art])
            /\ emitted' = emitted + 1
            /\ pc' = AfterEdge(bib, art).pc
            /\ art' = AfterEdge(bib, art).art
       ELSE /\ edges' = edges
            /\ emitted' = emitted
            /\ NextCandidate

\* line 412-414: an article cannot cite itself
SkipSelf ==
    /\ UNCHANGED <<call, threads>>
    /\ pc = "cand"
    /\ SameTitleObject(bib, art, article)
    /\ NextCandidate
    /\ UNCHANGED <<bib, runs, wiq, user_answers, years, year_arts, edges,
                   article, tei, nrefs, ref, question, output, asked, warned,
                   evald, emitted>>

\* line 416: citation_matching returns without waiting for the operator
Compare ==
    /\ UNCHANGED <<call, threads>>
    /\ pc = "cand"
    /\ ~SameTitleObject(bib, art, article)
    /\ LET m == MatchTable[bib[art], ref]
           v == IF m.verdict = "ask"
                THEN ask_user(wiq, user_answers, m.question)
                ELSE m.verdict
       IN  /\ v # "prompt"
           /\ Settle(v = "True",
                     IF m.verdict # "ask" THEN "engine"
                     ELSE IF wiq THEN "automode" ELSE "cache",
                     NoLine)
    /\ UNCHANGED <<bib, runs, wiq, user_answers, years, year_arts, article,
                   tei, nrefs, ref, question, output, asked, warned>>

\* lines 190-211: ask_user prints the question and blocks in input()
Prompt ==
    /\ UNCHANGED <<call, threads>>
    /\ pc = "cand"
    /\ ~SameTitleObject(bib, art, article)
    /\ LET m == MatchTable[bib[art], ref]
       IN  /\ m.verdict = "ask"
           /\ ask_user(wiq, user_answers, m.question) = "prompt"
           /\ question' = m.question
           /\ asked' = Append(asked, [question |-> m.question])
    /\ pc' = "prompt"
    /\ UNCHANGED <<bib, runs, wiq, user_answers, years, year_arts, edges,
                   article, tei, nrefs, ref, art, output, warned, evald,
                   emitted>>

\* lines 211-216: input() returns `line`; the answer is recorded and returned
Answer ==
    /\ UNCHANGED <<call, threads>>
    /\ pc = "prompt"
    /\ \E line \in Lines :
        /\ user_answers' = AppendAnswer(user_answers, question, IsYes(line))
        /\ Settle(IsYes(line), "operator", line)
    /\ question' = NoQuestion
    /\ UNCHANGED <<bib, runs, wiq, years, year_arts, article, tei, nrefs, ref,
                   output, asked, warned>>

\* the graph built so far is dumped when the run is interrupted
InterruptWritesGraph ==
    /\ UNCHANGED <<call, threads>>
    /\ pc = "prompt"
    /\ pc' = "interrupted"
    /\ output' = [written |-> TRUE, years |-> years, year_arts |-> year_arts,
                  edges |-> edges]
    /\ UNCHANGED <<bib, runs, wiq, user_answers, years, year_arts, edges,
                   article, tei, nrefs, ref, art, question, asked, warned,
                   evald, emitted>>

\* the operator interrupts the run at the prompt (KeyboardInterrupt)
Interrupt ==
    /\ UNCHANGED <<call, threads>>
    /\ pc = "prompt"
    /\ pc' = "interrupted"
    /\ UNCHANGED <<bib, runs, wiq, user_answers, years, year_arts, edges,
                   article, tei, nrefs, ref, art, question, output, asked,
                   warned, evald, emitted>>

\* lines 435-436: json.dump(graph, jf)
WriteGraph ==
    /\ UNCHANGED <<call, threads>>
    /\ pc = "write"
    /\ output' = [written |-> TRUE, years |-> years, year_arts |-> year_arts,
                  edges |-> edges]
    /\ pc' = "done"
    /\ UNCHANGED <<bib, runs, wiq, user_answers, years, year_arts, edges,
                   article, tei, nrefs, ref, art, question, asked, warned,
                   evald, emitted>>

Next ==
    \/ \E mode \in BOOLEAN : Call(mode)
    \/ BuildYears
    \/ SkipNoFile
    \/ SkipMissing
    \/ SkipSentinel
    \/ OpenTei
    \/ ReadRef
    \/ EndRefs
    \/ SkipSelf
    \/ Compare
    \/ Prompt
    \/ Answer
    \/ Interrupt
    \/ WriteGraph

Spec == Init /\ [][Next]_vars

\* ------------------------------------------------------------- properties
\* What the matcher is given for a pool entry and a pool reference, read off
\* the inputs: whether the two DOI fields yield the same DOI, and the band
\* the titles and author lists fall in.
DoisAgree ==
    [a \in PoolIds, r \in RefIds |->
        /\ find_doi(ArticlePool[a].doi) # None
        /\ find_doi(ArticlePool[a].doi) = find_doi(ReferencePool[r].doi)]

Band ==
    [a \in PoolIds, r \in RefIds |->
        LET A == ArticlePool[a]
            R == ReferencePool[r]
        IN  IF DoisAgree[a, r] THEN "doi"
            ELSE IF A.title = None \/ R.title = None THEN "notext"
            ELSE LET full == fuzz_ratio(clean_title(A.title), clean_title(R.title))
                     partial == fuzz_partial_ratio(clean_title(A.title),
                                                   clean_title(R.title))
                     score == find_matching_authors(find_author(A.author),
                                                    R.authors)[1]
                 IN  IF full > 90 \/ (partial > 95 /\ full > 70)
                     THEN IF score >= 2 THEN "match" ELSE "authors"
                     ELSE IF partial > 90 /\ full > 60 THEN "ambiguous"
                     ELSE "differ"]

\* the comparison goes to ask_user
NeedsHuman == [a \in PoolIds, r \in RefIds |-> Band[a, r] \in {"authors", "ambiguous"}]

\* the candidate loop stands at a candidate that citation_matching is called for
Comparing == pc = "cand" /\ ~SameTitleObject(bib, art, article)

LastEval == evald[Len(evald)]

\* C1: when a DOI is extracted from both the candidate's and the reference's
\* DOI field and the two are equal, the comparison is a match whatever the
\* titles, the authors and the mode are, the operator is not prompted and
\* the answer cache stays as it is.
C1_DoiShortCircuit ==
    [][(Comparing /\ DoisAgree[bib[art], ref])
          => /\ evald' = Append(evald, [art |-> art, matched |-> TRUE,
                                        how |-> "engine", input |-> NoLine])
             /\ edges' = Append(edges, [from |-> article, to |-> art])
             /\ pc' # "prompt"
             /\ user_answers' = user_answers
             /\ asked' = asked]_vars

\* a DOI match has been returned for a candidate whose title is far from the
\* reference's
C1_Witness ==
    /\ evald # <<>>
    /\ LastEval.matched
    /\ DoisAgree[bib[LastEval.art], ref]
    /\ ReferencePool[ref].title # None
    /\ Article(LastEval.art).title # None
    /\ fuzz_ratio(clean_title(Article(LastEval.art).title),
                  clean_title(ReferencePool[ref].title)) = 0

C3_OnePromptPerQuestion ==
    /\ \A i, j \in 1..Len(asked) :
        asked[i].question = asked[j].question => i = j
    /\ \A k \in 1..Len(user_answers) :
        user_answers[k].question = asked[k].question
    /\ \A k \in 1..Len(evald) :
        evald[k].how = "cache" =>
            \E j \in 1..Len(user_answers) :
                /\ user_answers[j].question
                       = MatchTable[bib[evald[k].art], ref].question
                /\ user_answers[j].answer = evald[k].matched

\* a comparison of the first, interactive invocation was answered from the
\* cache with a yes: its question had been put for an earlier reference
C3_Witness ==
    /\ ~wiq
    /\ runs = 1
    /\ \E k \in 1..Len(evald) :
        /\ evald[k].how = "cache"
        /\ evald[k].matched
        /\ \E j \in 1..Len(asked) :
            asked[j].question = MatchTable[bib[evald[k].art], ref].question

\* C4: no edge leads from an article to itself, and the article is never
\* compared with its own references.
C4_NoSelfEdge ==
    /\ \A k \in 1..Len(edges) : edges[k].from # edges[k].to
    /\ \A k \in 1..Len(evald) : evald[k].art # article
    /\ output.written => \A k \in 1..Len(output.edges) :
                             output.edges[k].from # output.edges[k].to

\* the candidate loop is through for a reference that matches the source
\* article itself, and no edge was made
C4_Witness ==
    /\ pc = "refs"
    /\ ref # 0
    /\ MatchTable[bib[article], ref].verdict = "True"
    /\ emitted = 0

\* C5: the candidates are compared in bibliography order; the first match
\* makes the one edge of the reference, from the source article to that
\* candidate, and no candidate is compared after it.
C5_FirstMatchWins ==
    /\ emitted <= 1
    /\ \A k \in 1..Len(evald) : evald[k].matched => k = Len(evald)
    /\ \A k \in 1..(Len(evald) - 1) : evald[k].art < evald[k + 1].art
    /\ \A k \in 1..Len(evald) : \A c \in 1..(evald[k].art - 1) :
        \/ SameTitleObject(bib, c, article)
        \/ \E j \in 1..(k - 1) : evald[j].art = c
    /\ (emitted = 1) <=> (evald # <<>> /\ LastEval.matched)
    /\ emitted = 1 =>
        /\ pc = "refs"
        /\ edges # <<>>
        /\ edges[Len(edges)] = [from |-> article, to |-> LastEval.art]
    /\ pc = "prompt" => \A k \in 1..Len(evald) : ~evald[k].matched

\* the edge of a reference is made, and a later candidate would have matched
\* the reference as well
C5_Witness ==
    /\ emitted = 1
    /\ \E c \in (LastEval.art + 1)..Len(bib) :
        /\ c # article
        /\ MatchTable[bib[c], ref].verdict = "True"

\* the ways the outer loop skips an article
SkipKinds == {"no_file", "missing"} \cup Sentinels

\* C6: an article that is skipped (no file, no TEI file, or a failure
\* sentinel as TEI content) has no outgoing edge, and the build goes on with
\* the next article.
C6_SkipContinues ==
    tei \in SkipKinds =>
        /\ pc \in {"article", "write", "done"}
        /\ \A k \in 1..Len(edges) : edges[k].from # article - 1

\* C7: every skip of an article emits exactly one warning, in each of the
\* three cases.
C7_SkipWarnsOnce == tei \in SkipKinds => warned = 1

\* the invocation is past lines 319-346
YearsBuilt == pc \notin {"idle", "years"} /\ article > 0

\* index is the year index of the bibliography
IsYearIndex(index) ==
    LET ys == {YearTable[bib[i]] : i \in 1..Len(bib)}
        lo == CHOOSE y \in ys : \A z \in ys : y <= z
        hi == CHOOSE y \in ys : \A z \in ys : y >= z
    IN  /\ DOMAIN index = lo..hi
        /\ \A y \in lo..hi :
            /\ {index[y][k] : k \in 1..Len(index[y])}
                   = {i \in 1..Len(bib) : YearTable[bib[i]] = y}
            /\ \A j, k \in 1..Len(index[y]) : index[y][j] = index[y][k] => j = k

\* C8: year_arts has one entry for every year from the smallest to the
\* largest year of the articles; the entry of a year holds the keys of
\* exactly the articles of that year, each once, and is empty for a year
\* without articles.  Stated for the index as built by lines 327-334 and as
\* written to the graph file.
C8_YearIndex ==
    /\ (pc = "article" /\ article = 1) => IsYearIndex(year_arts)
    /\ output.written => IsYearIndex(output.year_arts)

\* the graph is written with a year that has no article between a year with
\* two articles and a year with one
C8_Witness ==
    /\ output.written
    /\ \E y \in DOMAIN output.year_arts : output.year_arts[y] = <<>>
    /\ \E y \in DOMAIN output.year_arts : Len(output.year_arts[y]) = 2

\* the answer ask_user gives for the comparison of candidate a
HumanAnswer(a) ==
    IF wiq THEN {FALSE}
    ELSE {user_answers[j].answer :
              j \in {i \in 1..Len(user_answers) :
                         user_answers[i].question = MatchTable[bib[a], ref].question}}

\* C9: when the DOIs do not agree and both titles are text: titles in the
\* match band (full > 90, or partial > 95 and full > 70) with an author score
\* of at least 2 are a match; titles in the match band with a smaller score,
\* and titles in the ambiguous band (partial > 90 and full > 60), get ask_user's
\* answer; all other titles are no match, and nothing is asked for them.
C9_ThresholdTable ==
    /\ \A k \in 1..Len(evald) :
        LET e == evald[k]
            b == Band[bib[e.art], ref]
        IN  /\ b = "match" => e.matched /\ e.how = "engine"
            /\ b = "differ" => ~e.matched /\ e.how = "engine"
            /\ b \in {"authors", "ambiguous"} =>
                /\ e.how # "engine"
                /\ e.matched \in HumanAnswer(e.art)
    /\ pc = "prompt" => Band[bib[art], ref] \in {"authors", "ambiguous"}

\* the operator said yes to a comparison of the ambiguous band
C9_Witness ==
    /\ evald # <<>>
    /\ Band[bib[LastEval.art], ref] = "ambiguous"
    /\ LastEval.how = "operator"
    /\ LastEval.matched

\* C10: when the DOIs do not agree and the candidate's or the reference's
\* title is missing, the comparison is no match, nothing is asked and
\* nothing is raised; a reference with neither title nor DOI gets no edge
\* and the build goes on.
C10_MissingTitle ==
    /\ \A k \in 1..Len(evald) :
        Band[bib[evald[k].art], ref] = "notext" =>
            ~evald[k].matched /\ evald[k].how = "engine"
    /\ pc = "prompt" => Band[bib[art], ref] # "notext"
    /\ (ref # 0 /\ ReferencePool[ref].title = None /\ ReferencePool[ref].doi = None)
           => emitted = 0 /\ pc \in {"cand", "refs"}

\* the candidate loop is through for a reference with neither title nor DOI
\* after two comparisons, one of them with a candidate without a title
C10_Witness ==
    /\ pc = "refs"
    /\ ref # 0
    /\ ReferencePool[ref].title = None
    /\ ReferencePool[ref].doi = None
    /\ Len(evald) >= 2
    /\ \E k \in 1..Len(evald) : Article(evald[k].art).title = None

\* C11: at the start of every invocation of build_graph_model the answer
\* cache is empty, so no answer of an earlier invocation of the process is
\* returned to a comparison.
C11_CacheEmptyAtStart == pc = "years" => user_answers = <<>>

\* C12: the graph file is written only by an invocation that has processed
\* every article and every reference, and holds the complete graph; an
\* invocation that stopped at a prompt or with an error has written nothing.
C12_PublishOnlyComplete ==
    /\ output.written =>
        /\ pc = "done"
        /\ article = Len(bib) + 1
        /\ output.years = years
        /\ output.year_arts = year_arts
        /\ output.edges = edges
    /\ pc \in {"interrupted", "raised"} => ~output.written

\* the run was interrupted at a prompt after an edge had been made, and no
\* file has been written
C12_Witness ==
    /\ pc = "interrupted"
    /\ edges # <<>>
    /\ ~output.written

\* C13: the answer cache only grows, and only by the answer to a prompt:
\* the step that reads the operator's line appends one entry, the question
\* that was put with the value returned, which is true exactly for the line
\* "y"; every other step leaves the cache as it is; and no two entries have
\* the same question.
C13_CacheAppendOnly ==
    /\ [](\A i, j \in 1..Len(user_answers) :
             user_answers[i].question = user_answers[j].question => i = j)
    /\ [][/\ Len(user_answers') >= Len(user_answers)
          /\ SubSeq(user_answers', 1, Len(user_answers)) = user_answers
          /\ pc # "prompt" => user_answers' = user_answers
          /\ (pc = "prompt" /\ pc' \notin {"prompt", "interrupted"}) =>
                /\ Len(user_answers') = Len(user_answers) + 1
                /\ user_answers'[Len(user_answers')].question = question
                /\ user_answers'[Len(user_answers')].answer
                       = (evald'[Len(evald')].input = "y")
                /\ evald'[Len(evald')].how = "operator"
                /\ evald'[Len(evald')].matched
                       = user_answers'[Len(user_answers')].answer]_vars

\* the operator typed an upper-case Y at the second prompt; the entry
\* appended is a no and the comparison is no match
C13_Witness ==
    /\ Len(user_answers) = 2
    /\ evald # <<>>
    /\ LastEval.how = "operator"
    /\ LastEval.input = "Y"
    /\ ~LastEval.matched
    /\ ~user_answers[2].answer
    /\ user_answers[2].question = MatchTable[bib[LastEval.art], ref].question

\* C18: an article whose year is None does not stop the build: when other
\* articles have a year, the year index is built and the loop over the
\* articles is entered.
C18_NoneYearContinues ==
    (/\ \E i \in 1..Len(bib) : Article(i).year = None
     /\ \E i \in 1..Len(bib) : Article(i).year # None
     /\ pc \notin {"idle", "years"})
        => /\ YearsBuilt
           /\ years = YearsOf(bib)
           /\ DOMAIN year_arts = SeqMin(years)..SeqMax(years)

\* ------------------------------------------- the functions on their own
\* The functions of the module called directly, one call per behaviour.
buildvars == <<bib, pc, runs, wiq, user_answers, years, year_arts, edges,
               article, tei, nrefs, ref, art, question, output, asked, warned,
               evald, emitted>>

\* build_graph_model is not called
Parked ==
    /\ bib = <<>>
    /\ pc = "idle"
    /\ runs = 0
    /\ wiq = FALSE
    /\ user_answers = <<>>
    /\ years = <<>>
    /\ year_arts = <<>>
    /\ edges = <<>>
    /\ article = 0
    /\ tei = "none"
    /\ nrefs = 0
    /\ ref = 0
    /\ art = 0
    /\ question = NoQuestion
    /\ output = NoGraph
    /\ asked = <<>>
    /\ warned = 0
    /\ evald = <<>>
    /\ emitted = 0

\* the texts given to find_doi: None and every text of up to n characters
\* over a digit, the dot, the slash, a letter and the blank
TextChars == {"1", ".", "/", "a", " "}
Texts(n) == UNION {[1..k -> TextChars] : k \in 0..n} \cup {None}

\* the author lists given to find_matching_authors: up to n surnames, the
\* same surname more than once and in another case included
Names == {<<"L","i">>, <<"l","i">>, <<"W","u">>}
AuthorLists(n) == UNION {[1..k -> Names] : k \in 0..n}

\* the arguments build_graph_model passes for a pool entry and a pool
\* reference (lines 409-423)
MatchArgs(a, r) ==
    <<ArticlePool[a].doi, ReferencePool[r].doi, ArticlePool[a].title,
      ReferencePool[r].title, find_author(ArticlePool[a].author),
      ReferencePool[r].authors>>

Pending(fn, args) == [fn |-> fn, args |-> args, done |-> FALSE, result |-> <<>>]

Calls(text, authors) ==
    {Pending("find_doi", <<t>>) : t \in Texts(text)}
        \cup {Pending("find_matching_authors", <<a, o>>) :
                  a \in AuthorLists(authors), o \in AuthorLists(authors)}
        \cup {Pending("citation_matching", MatchArgs(a, r)) :
                  a \in PoolIds, r \in RefIds}

InitFunctions ==
    /\ Parked
    /\ call \in Calls(MaxText, MaxAuthors)
    /\ threads = <<>>

Return(value) ==
    /\ call' = [call EXCEPT !.done = TRUE, !.result = value]
    /\ UNCHANGED <<buildvars, threads>>

Apply_find_doi ==
    /\ call.fn = "find_doi"
    /\ ~call.done
    /\ Return(find_doi(call.args[1]))

Apply_find_matching_authors ==
    /\ call.fn = "find_matching_authors"
    /\ ~call.done
    /\ Return(find_matching_authors(call.args[1], call.args[2]))

Apply_citation_matching ==
    /\ call.fn = "citation_matching"
    /\ ~call.done
    /\ Return(citation_matching(call.args[1], call.args[2], call.args[3],
                                call.args[4], call.args[5], call.args[6]))

NextFunctions ==
    \/ Apply_find_doi
    \/ Apply_find_matching_authors
    \/ Apply_citation_matching

Functions == InitFunctions /\ [][NextFunctions]_vars

Returned(fn) == call.fn = fn /\ call.done

\* what the author at position i of artauthors adds when the first-author
\* branches are those of position 1 only
PositionScore(artauthors, otherauthors, i) ==
    IF i = 1
    THEN IF artauthors[1] = otherauthors[1] THEN 5
         ELSE IF FuzzyIn(artauthors[1], otherauthors) THEN 3
         ELSE 0
    ELSE IF artauthors[i] = otherauthors[1] THEN 3
    ELSE IF FuzzyIn(artauthors[i], otherauthors) THEN 1
    ELSE 0

RECURSIVE PositionSum(_, _, _)
PositionSum(artauthors, otherauthors, i) ==
    IF i > Len(artauthors) THEN 0
    ELSE PositionScore(artauthors, otherauthors, i)
             + PositionSum(artauthors, otherauthors, i + 1)

\* C14: in find_matching_authors every author fires at most one branch, the
\* branches worth 5 and 3 of the first author apply to the author at
\* position 0 only, an author at a later position adds at most 3 (equal to
\* the other list's first author) or 1 (fuzzy match), and number goes down
\* by one per author that fired a branch.
C14_FirstAuthorByPosition ==
    (/\ Returned("find_matching_authors")
     /\ call.args[1] # <<>>
     /\ call.args[2] # <<>>)
        => /\ call.result[1] = PositionSum(call.args[1], call.args[2], 1)
           /\ call.result[2]
                  = Len(call.args[1]) + Len(call.args[2])
                        - Cardinality({i \in 1..Len(call.args[1]) :
                              PositionScore(call.args[1], call.args[2], i) > 0})

\* the titles of a call of citation_matching are in the match band
TitlesInMatchBand(title_art, title_ref) ==
    /\ title_art # None
    /\ title_ref # None
    /\ LET full == fuzz_ratio(clean_title(title_art), clean_title(title_ref))
           partial == fuzz_partial_ratio(clean_title(title_art),
                                         clean_title(title_ref))
       IN  full > 90 \/ (partial > 95 /\ full > 70)

\* C15: with an empty list on either side find_matching_authors returns the
\* score 0 and the sum of the two lengths; a pair without agreeing DOIs whose
\* titles match and that has an empty author list on either side is not
\* matched by citation_matching itself but goes to ask_user.
C15_EmptyAuthorList ==
    /\ (/\ Returned("find_matching_authors")
        /\ (call.args[1] = <<>> \/ call.args[2] = <<>>))
           => call.result = <<0, Len(call.args[1]) + Len(call.args[2])>>
    /\ (/\ Returned("citation_matching")
        /\ ~(find_doi(call.args[1]) # None
                /\ find_doi(call.args[1]) = find_doi(call.args[2]))
        /\ TitlesInMatchBand(call.args[3], call.args[4])
        /\ (call.args[5] = <<>> \/ call.args[6] = <<>>))
           => call.result = "ask"

\* citation_matching went to ask_user for matching titles and a candidate
\* without authors, the reference having authors
C15_Witness ==
    /\ Returned("citation_matching")
    /\ TitlesInMatchBand(call.args[3], call.args[4])
    /\ call.args[5] = <<>>
    /\ call.args[6] # <<>>
    /\ call.result = "ask"

\* s[i..j] is `lead` digits, a dot, one or more digits, a slash and one or
\* more characters that are no whitespace
IsDoiShape(s, i, j, lead) ==
    \E k \in i..j :
        /\ k - i \in lead
        /\ \A x \in i..(k - 1) : s[x] \in Digits
        /\ s[k] = "."
        /\ \E m \in (k + 2)..(j - 1) :
            /\ s[m] = "/"
            /\ \A x \in (k + 1)..(m - 1) : s[x] \in Digits
            /\ \A x \in (m + 1)..j : s[x] \notin Whitespace

\* the first substring of the text of that shape, taken as far as it goes;
\* None for None and for a text without one
FirstMatch(s, lead) ==
    IF s = None THEN None
    ELSE LET found == {i \in 1..Len(s) :
                           \E j \in i..Len(s) : IsDoiShape(s, i, j, lead)}
         IN  IF found = {} THEN None
             ELSE LET i0 == CHOOSE i \in found : \A x \in found : i <= x
                      j0 == CHOOSE j \in i0..Len(s) :
                                /\ IsDoiShape(s, i0, j, lead)
                                /\ \A y \in (j + 1)..Len(s) :
                                       ~IsDoiShape(s, i0, y, lead)
                  IN  SubSeq(s, i0, j0)

\* C16, as stated: find_doi returns the first substring of the text that is
\* one or more digits, a dot, one or more digits, a slash and one or more
\* characters that are no whitespace, and None exactly when there is none
\* or the text is None.
C16_AnyDigits ==
    Returned("find_doi") =>
        call.result = FirstMatch(call.args[1], 1..(MaxText + 1))

\* C16, amended: find_doi returns the first substring of the text that is
\* exactly two digits, a dot, one or more digits, a slash and one or more
\* characters that are no whitespace, and None exactly when there is none
\* or the text is None.
C16_TwoDigits ==
    Returned("find_doi") => call.result = FirstMatch(call.args[1], {2})

\* find_doi returned a part of a text that has more digits in front of it
C16_Witness ==
    /\ Returned("find_doi")
    /\ call.result # None
    /\ call.result # call.args[1]
    /\ call.args[1][1] \in Digits
    /\ call.result[1] \in Digits

\* ------------------------------------------- ask_user called concurrently
\* MaxThreads threads compare in the interactive mode and call ask_user at
\* the same time; user_answers is the one list of the module and there is
\* no lock.  A thread can be preempted between the scan of the list (lines
\* 186-188) and the append after input() (lines 211-216).
Thread == 1..MaxThreads

\* the questions citation_matching puts for the pool
ThreadQuestions ==
    {MatchTable[p[1], p[2]].question :
         p \in {x \in PoolIds \X RefIds : MatchTable[x[1], x[2]].verdict = "ask"}}

IdleThread == [pc |-> "idle", question |-> NoQuestion, prompted |-> FALSE,
               result |-> FALSE]

cachefree == <<bib, pc, runs, wiq, years, year_arts, edges, article, tei,
               nrefs, ref, art, question, output, asked, warned, evald,
               emitted>>

InitThreads ==
    /\ Parked
    /\ call = NoCall
    /\ threads = [t \in Thread |-> IdleThread]

\* line 176: the thread calls ask_user with a question
ThreadAsk(t) ==
    /\ threads[t].pc = "idle"
    /\ \E q \in ThreadQuestions :
        threads' = [threads EXCEPT ![t].pc = "scan", ![t].question = q]
    /\ UNCHANGED <<cachefree, user_answers, call>>

\* lines 185-210: the scan of user_answers; a hit returns the answer, a miss
\* prints the question and goes to input()
ThreadScan(t) ==
    /\ threads[t].pc = "scan"
    /\ threads' =
        IF Answered(user_answers, threads[t].question)
        THEN [threads EXCEPT
                 ![t].pc = "returned",
                 ![t].result = CachedAnswer(user_answers, threads[t].question)]
        ELSE [threads EXCEPT ![t].pc = "input", ![t].prompted = TRUE]
    /\ UNCHANGED <<cachefree, user_answers, call>>

\* lines 211-216: input() returns; the answer is appended and returned
ThreadInput(t) ==
    /\ threads[t].pc = "input"
    /\ \E line \in Lines :
        /\ user_answers' = AppendAnswer(user_answers, threads[t].question,
                                        IsYes(line))
        /\ threads' = [threads EXCEPT ![t].pc = "returned",
                                      ![t].result = IsYes(line)]
    /\ UNCHANGED <<cachefree, call>>

NextThreads ==
    \/ \E t \in Thread : ThreadAsk(t)
    \/ \E t \in Thread : ThreadScan(t)
    \/ \E t \in Thread : ThreadInput(t)

Threads == InitThreads /\ [][NextThreads]_vars

\* the entries of the cache for a question
EntriesFor(q) == {k \in 1..Len(user_answers) : user_answers[k].question = q}

\* the threads that were prompted for a question and have answered
AnsweredPrompts(q) ==
    {t \in Thread : /\ threads[t].pc = "returned"
                    /\ threads[t].prompted
                    /\ threads[t].question = q}

\* C17: between the scan of the cache and the append nothing holds the other
\* threads off: every thread that missed the cache prompts and appends an
\* entry of its own, whatever has been appended in between, so that a
\* question has as many entries as prompts were answered for it.
C17_EveryPromptAppends ==
    \A q \in ThreadQuestions :
        /\ Cardinality(EntriesFor(q)) = Cardinality(AnsweredPrompts(q))
        /\ \A t \in Thread :
            (threads[t].pc = "returned" /\ threads[t].question = q
                 /\ ~threads[t].prompted)
                => EntriesFor(q) # {}

\* two threads missed the cache for the same question, the operator was
\* prompted twice, and the cache has two entries for the question
C17_Witness ==
    \E t, u \in Thread :
        /\ t # u
        /\ threads[t].pc = "returned"
        /\ threads[u].pc = "returned"
        /\ threads[t].prompted
        /\ threads[u].prompted
        /\ threads[t].question = threads[u].question
        /\ Cardinality(EntriesFor(threads[t].question)) = 2

=============================================================================
